---- MODULE Spec2Model ----
(***************************************************************************)
(* A model of the authored control flow of the course notebooks:           *)
(*   langchain/1_Basics/1-openai-code.ipynb   the API-key check            *)
(*   langchain/6_Tools/1_tools_basics.ipynb   tool calling, ReAct agent    *)
(*   unnamed/part_001                         the RAG notebook             *)
(* Each notebook is one state machine over its own variables; a            *)
(* specification runs one notebook and leaves the others where they start. *)
(* Strings whose characters matter (the API key) are sequences of          *)
(* one-character strings; the hosted model's answers are inputs drawn      *)
(* from small sets.                                                        *)
(***************************************************************************)
EXTENDS Integers, Sequences, FiniteSets, TLC

VARIABLES
    \* ---- 1-openai-code.ipynb ----
    environ,        \* os.environ["OPENAI_API_KEY"]
    dotenv,         \* the OPENAI_API_KEY entry of the .env file
    api_key,        \* the notebook's api_key
    stdout,         \* what the key-check cell has printed
    kpc,            \* position in the key-check cell
    \* ---- 1_tools_basics.ipynb, tool calling ----
    tools,          \* the global `tools`
    boundTools,     \* the tools bound into llm_with_tools
    result,         \* the global `result`: the last AIMessage assigned to it
    messages,       \* the global `messages`
    tool_mapping,   \* the global `tool_mapping`: key -> tool
    loopIdx,        \* how many entries of result.tool_calls the for loop has taken
    toolRuns,       \* every execution of a tool function, with who ran it
    calls,          \* the calls the tool-calling cells issue to the model and to tools, in order
    err,            \* the exception that ended the run, "" when none
    tpc,            \* position in the notebook
    runs,           \* how many times the notebook has been run
    prevCalls,      \* `calls` of the previous run
    prevEnd,        \* how the previous run ended: "done", "aborted", "" when none
    \* ---- 1_tools_basics.ipynb, Math Tool and ReAct agent ----
    agentTools,     \* the tools the agent was initialised with
    apc,            \* position in the agent cells
    agentState,     \* where the running agent.invoke is: "idle" when none runs
    agentInput,     \* the input of the current agent.invoke
    iterations,     \* AgentExecutor's iteration counter
    pending,        \* the action the model asked for and the executor has not run yet
    steps,          \* intermediate_steps: the (action, observation) pairs of the run
    agentOut,       \* what the last agent.invoke returned
    agentLog,       \* the verbose trace of the current agent.invoke
    toolRunsBefore, \* Len(toolRuns) when the current agent.invoke began
    \* ---- the RAG notebook ----
    webPage,        \* the page at the loader's URL: per piece of text, its
                    \* similarity to the question under the embedding model
    docs,           \* the global `docs`
    blog_docs,      \* the global `blog_docs`
    splits,         \* the global `splits`
    vectorstore,    \* the documents in the Chroma collection, in insertion order
    retrieverK,     \* k of the global `retriever`, 0 before there is one
    chainPc,        \* where rag_chain.invoke is
    ctxPc,          \* the "context" branch of the chain's first step
    qPc,            \* the "question" branch of the chain's first step
    retrieved,      \* what the retriever returned to the chain
    context,        \* what format_docs returned
    promptValue,    \* the prompt handed to the model
    answer,         \* what rag_chain.invoke returned
    ragLog,         \* the stages run so far, in order
    rpc,            \* position in the notebook
    \* ---- the RAG notebook, the cells on shakespeare.txt ----
    shakespeare,    \* shakespeare.txt: per chunk of text, its similarity to
                    \* the query under the embedding model
    documents,      \* the global `documents`
    db,             \* the documents in the collection "shakespeare", in insertion order
    query,          \* the global `query`
    promptText,     \* the string handed to llm.invoke, as its segments
    manualOut,      \* what the two cells have printed
    mpc             \* position in the two cells

basicsVars == <<environ, dotenv, api_key, stdout, kpc>>

toolsVars == <<tools, boundTools, result, messages, tool_mapping, loopIdx,
               toolRuns, calls, err, tpc, runs, prevCalls, prevEnd>>

\* the tool-calling state the agent cells never touch
toolsRest == <<boundTools, result, messages, tool_mapping, loopIdx,
               calls, err, tpc, runs, prevCalls, prevEnd>>

agentVars == <<agentTools, apc, agentState, agentInput, iterations, pending,
               steps, agentOut, agentLog, toolRunsBefore>>

manualVars == <<shakespeare, documents, db, query, promptText, manualOut, mpc>>

ragVars == <<webPage, docs, blog_docs, splits, vectorstore, retrieverK, chainPc,
             ctxPc, qPc, retrieved, context, promptValue, answer, ragLog, rpc,
             shakespeare, documents, db, query, promptText, manualOut, mpc>>

\* the state of the notebook that the cells on shakespeare.txt never touch
ragOnly == <<webPage, blog_docs, splits, vectorstore, retrieverK, chainPc,
             ctxPc, qPc, retrieved, promptValue, ragLog, rpc>>

vars == <<environ, dotenv, api_key, stdout, kpc,
          tools, boundTools, result, messages, tool_mapping, loopIdx,
          toolRuns, calls, err, tpc, runs, prevCalls, prevEnd,
          agentTools, apc, agentState, agentInput, iterations, pending,
          steps, agentOut, agentLog, toolRunsBefore,
          webPage, docs, blog_docs, splits, vectorstore, retrieverK, chainPc,
          ctxPc, qPc, retrieved, context, promptValue, answer, ragLog, rpc,
          shakespeare, documents, db, query, promptText, manualOut, mpc>>

----------------------------------------------------------------------------
(* Bounds *)

MaxKeyLen == 9

\* the most tool calls one answer of the hosted model carries
MaxCalls == 2

\* how many times the tool-calling notebook is run
MaxRuns == 2

\* the most pieces the text splitter cuts the loaded page into
MaxPieces == 3

\* similarities are graded 0..MaxSim
MaxSim == 2

\* the most chunks the text splitter cuts shakespeare.txt into
MaxChunks == 5

----------------------------------------------------------------------------
(* Python values *)

Min(a, b) == IF a < b THEN a ELSE b
Max(a, b) == IF a > b THEN a ELSE b

\* An optional string: None, or a str of characters.
NoneVal == [isNone |-> TRUE, s |-> <<>>]
Str(s) == [isNone |-> FALSE, s |-> s]

\* bool(v) of an optional string: None and "" are falsy.
Truthy(v) == ~v.isNone /\ Len(v.s) > 0

\* s[:n]
SliceTo(s, n) == SubSeq(s, 1, Min(n, Len(s)))

\* s[-n:]
SliceFromEnd(s, n) == SubSeq(s, Max(1, Len(s) - n + 1), Len(s))

Alphabet == {"s", "k"}

KeyStrings == UNION {[1..n -> Alphabet] : n \in 0..MaxKeyLen}

Ellipsis == <<".", ".", ".">>

\* whether t occurs in s as a contiguous run of characters
IsSubstring(t, s) ==
    \E i \in 0..(Len(s) - Len(t)) : SubSeq(s, i + 1, i + Len(t)) = t

----------------------------------------------------------------------------
(* 1-openai-code.ipynb: the API-key check *)

FoundLabel == "API key found:"
NotFoundLabel == "No API key found"

\* api_key[:4] + "..." + api_key[-4:]
MaskedKey(key) == SliceTo(key, 4) \o Ellipsis \o SliceFromEnd(key, 4)

\* load_dotenv(): a variable already in os.environ is not overridden
LoadDotenv ==
    /\ kpc = "load_dotenv"
    /\ environ' = IF environ.isNone THEN dotenv ELSE environ
    /\ kpc' = "getenv"
    /\ UNCHANGED <<dotenv, api_key, stdout>>
    /\ UNCHANGED <<toolsVars, agentVars, ragVars>>

\* api_key = os.getenv("OPENAI_API_KEY")
GetEnv ==
    /\ kpc = "getenv"
    /\ api_key' = environ
    /\ kpc' = "check"
    /\ UNCHANGED <<environ, dotenv, stdout>>
    /\ UNCHANGED <<toolsVars, agentVars, ragVars>>

\* a faulty variant: the branch taken for every key that is not None
KeyBranchNotNone(v) == ~v.isNone

\* if api_key: print(...) else: print("No API key found")
KeyBranch(v) == Truthy(v)

CheckApiKey ==
    /\ kpc = "check"
    /\ stdout' = IF KeyBranch(api_key)
                 THEN Append(stdout, [label |-> FoundLabel, text |-> MaskedKey(api_key.s)])
                 ELSE Append(stdout, [label |-> NotFoundLabel, text |-> <<>>])
    /\ kpc' = "done"
    /\ UNCHANGED <<environ, dotenv, api_key>>
    /\ UNCHANGED <<toolsVars, agentVars, ragVars>>

BasicsStart ==
    /\ environ \in {NoneVal} \cup {Str(s) : s \in KeyStrings}
    /\ dotenv \in {NoneVal, Str(<<>>), Str(<<"s", "k", "s", "k", "s">>)}
    /\ api_key = NoneVal
    /\ stdout = <<>>
    /\ kpc = "load_dotenv"

\* the key-check cell not run: the state the other notebooks start from
BasicsIdle ==
    /\ environ = NoneVal
    /\ dotenv = NoneVal
    /\ api_key = NoneVal
    /\ stdout = <<>>
    /\ kpc = "load_dotenv"

NextBasics == LoadDotenv \/ GetEnv \/ CheckApiKey

----------------------------------------------------------------------------
(* 1_tools_basics.ipynb: tool calling *)

\* the @tool functions of the notebook, by name
WeatherTool == "fake_weather_api"
SeatingTool == "outdoor_seating_availability"

\* the names a tool call of the hosted model may carry
CallNames == {"fake_weather_api", "Fake_Weather_API",
              "outdoor_seating_availability", "get_time"}

\* the characters of the names above
Chars(name) ==
    CASE name = "fake_weather_api" ->
            <<"f", "a", "k", "e", "_", "w", "e", "a", "t", "h", "e", "r", "_", "a", "p", "i">>
      [] name = "Fake_Weather_API" ->
            <<"F", "a", "k", "e", "_", "W", "e", "a", "t", "h", "e", "r", "_", "A", "P", "I">>
      [] name = "outdoor_seating_availability" ->
            <<"o", "u", "t", "d", "o", "o", "r", "_", "s", "e", "a", "t", "i", "n", "g", "_",
              "a", "v", "a", "i", "l", "a", "b", "i", "l", "i", "t", "y">>
      [] name = "get_time" -> <<"g", "e", "t", "_", "t", "i", "m", "e">>

\* str.lower() on one character of those names
LowerChar(c) ==
    CASE c = "F" -> "f"
      [] c = "W" -> "w"
      [] c = "A" -> "a"
      [] c = "P" -> "p"
      [] c = "I" -> "i"
      [] OTHER -> c

\* str.lower() on those names
Lower(name) ==
    CASE name = "Fake_Weather_API" -> "fake_weather_api"
      [] OTHER -> name

\* what each @tool function returns
ToolOutput(tool) ==
    CASE tool = WeatherTool -> "Sunny, 22C"
      [] tool = SeatingTool -> "Outdoor seating is available."

\* a faulty variant: arguments that are never checked
ArgsValidAlways(args) == TRUE

\* tool.invoke(args) validates args against the function's signature (city: str)
ArgsValid(args) == "city" \in args

\* a tool call of an AIMessage: {'name', 'args', 'id', 'type': 'tool_call'}
ToolCalls == [name : CallNames, args : {{"city"}, {}}, id : 1..MaxCalls]

\* the tool_calls lists an answer may carry: the ids the API gives are unique
ToolCallLists ==
    {tcs \in UNION {[1..n -> ToolCalls] : n \in 0..MaxCalls} :
        \A i, j \in 1..Len(tcs) : i # j => tcs[i].id # tcs[j].id}

Question == "How will the weather be in Bangalore today? Do you still have seats outdoor available?"

HumanMessage(text) ==
    [type |-> "human", content |-> text, tool_calls |-> <<>>, tool_call_id |-> 0]
AIMessage(text, tcs) ==
    [type |-> "ai", content |-> text, tool_calls |-> tcs, tool_call_id |-> 0]
ToolMessage(text, id) ==
    [type |-> "tool", content |-> text, tool_calls |-> <<>>, tool_call_id |-> id]

EmptyMapping == [k \in {} |-> k]

\* a faulty variant: the new message put in front of the list
ListInsertFront(list, m) == <<m>> \o list

\* list.append(m)
ListAppend(list, m) == Append(list, m)
NoResult == AIMessage("", <<>>)

\* a faulty variant: an invoke that runs every tool it names before it returns
InvokeRunsAuto(tcs) ==
    [i \in 1..Len(tcs) |-> [tool |-> Lower(tcs[i].name), by |-> "framework"]]

\* the tool functions the bound model itself executes while answering an
\* invoke: none, it only names the tools to call
InvokeRuns(tcs) == <<>>

\* llm.invoke("How will the weather be in Bangalore today?")
LlmInvoke ==
    /\ tpc = "llm_invoke"
    /\ calls' = Append(calls, "llm")
    /\ tpc' = "define_tools"
    /\ UNCHANGED <<tools, boundTools, result, messages, tool_mapping, loopIdx,
                   toolRuns, err, runs, prevCalls, prevEnd>>
    /\ UNCHANGED <<basicsVars, agentVars, ragVars>>

\* tools = [fake_weather_api, outdoor_seating_availability]
DefineTools ==
    /\ tpc = "define_tools"
    /\ tools' = <<WeatherTool, SeatingTool>>
    /\ tpc' = "bind_tools"
    /\ UNCHANGED <<boundTools, result, messages, tool_mapping, loopIdx,
                   toolRuns, calls, err, runs, prevCalls, prevEnd>>
    /\ UNCHANGED <<basicsVars, agentVars, ragVars>>

\* llm_with_tools = llm.bind_tools(tools)
BindTools ==
    /\ tpc = "bind_tools"
    /\ boundTools' = {tools[i] : i \in 1..Len(tools)}
    /\ tpc' = "invoke_question"
    /\ UNCHANGED <<tools, result, messages, tool_mapping, loopIdx,
                   toolRuns, calls, err, runs, prevCalls, prevEnd>>
    /\ UNCHANGED <<basicsVars, agentVars, ragVars>>

\* result = llm_with_tools.invoke("How will the weather be in Bangalore today?")
InvokeQuestion ==
    /\ tpc = "invoke_question"
    /\ \E tcs \in {l \in ToolCallLists : Len(l) <= 1} :
        /\ result' = AIMessage("", tcs)
        /\ toolRuns' = toolRuns \o InvokeRuns(tcs)
    /\ calls' = Append(calls, "llm")
    /\ tpc' = "invoke_messages"
    /\ UNCHANGED <<tools, boundTools, messages, tool_mapping, loopIdx,
                   err, runs, prevCalls, prevEnd>>
    /\ UNCHANGED <<basicsVars, agentVars, ragVars>>

\* messages = [HumanMessage(...)]; result = llm_with_tools.invoke(messages);
\* messages.append(result)
InvokeMessages ==
    /\ tpc = "invoke_messages"
    /\ \E tcs \in ToolCallLists :
        /\ result' = AIMessage("", tcs)
        /\ messages' = ListAppend(<<HumanMessage(Question)>>, AIMessage("", tcs))
        /\ toolRuns' = toolRuns \o InvokeRuns(tcs)
    /\ calls' = Append(calls, "llm")
    /\ tpc' = "tool_mapping"
    /\ UNCHANGED <<tools, boundTools, tool_mapping, loopIdx, err, runs, prevCalls, prevEnd>>
    /\ UNCHANGED <<basicsVars, agentVars, ragVars>>

\* a faulty variant: a dict that maps the weather tool only
ToolMappingWeatherOnly == [k \in {"fake_weather_api"} |-> WeatherTool]

\* the dict literal {"fake_weather_api": fake_weather_api,
\*                   "outdoor_seating_availability": outdoor_seating_availability}
ToolMappingLiteral ==
    [k \in {"fake_weather_api", "outdoor_seating_availability"} |->
        IF k = "fake_weather_api" THEN WeatherTool ELSE SeatingTool]

\* tool_mapping = {"fake_weather_api": ..., "outdoor_seating_availability": ...}
DefineToolMapping ==
    /\ tpc = "tool_mapping"
    /\ tool_mapping' = ToolMappingLiteral
    /\ loopIdx' = 0
    /\ tpc' = "dispatch"
    /\ UNCHANGED <<tools, boundTools, result, messages, toolRuns, calls, err,
                   runs, prevCalls, prevEnd>>
    /\ UNCHANGED <<basicsVars, agentVars, ragVars>>

\* a faulty variant: the name looked up as it is written
LookupKeyExact(tool_call) == tool_call.name

\* the key the loop looks up: tool_call["name"].lower()
LookupKey(tool_call) == Lower(tool_call.name)

\* a faulty variant: a ToolMessage that does not carry the id of its call
DispatchMessageNoId(tool_output, tool_call) == ToolMessage(tool_output, 0)

\* ToolMessage(tool_output, tool_call_id=tool_call["id"])
DispatchMessage(tool_output, tool_call) == ToolMessage(tool_output, tool_call.id)

\* a faulty variant: a loop that stops after its first pass
LoopExhaustedAfterFirst(i, tcs) == i >= Min(1, Len(tcs))

\* the for loop has no entry of result.tool_calls left
LoopExhausted(i, tcs) == i >= Len(tcs)

\* one pass of: for tool_call in result.tool_calls
DispatchToolCall ==
    /\ tpc = "dispatch"
    /\ ~LoopExhausted(loopIdx, result.tool_calls)
    /\ LET tool_call == result.tool_calls[loopIdx + 1]
           key == LookupKey(tool_call)
       IN  IF key \notin DOMAIN tool_mapping
           THEN \* tool_mapping[...] raises KeyError
                /\ err' = "KeyError"
                /\ tpc' = "aborted"
                /\ UNCHANGED <<messages, toolRuns, calls, loopIdx>>
           ELSE IF ~ArgsValid(tool_call.args)
           THEN \* tool.invoke(...) raises before the function runs
                /\ err' = "ValidationError"
                /\ tpc' = "aborted"
                /\ calls' = Append(calls, tool_mapping[key])
                /\ UNCHANGED <<messages, toolRuns, loopIdx>>
           ELSE /\ toolRuns' = Append(toolRuns, [tool |-> tool_mapping[key],
                                                 by |-> "notebook"])
                /\ calls' = Append(calls, tool_mapping[key])
                /\ messages' = ListAppend(messages,
                                   DispatchMessage(ToolOutput(tool_mapping[key]), tool_call))
                /\ loopIdx' = loopIdx + 1
                /\ UNCHANGED <<err, tpc>>
    /\ UNCHANGED <<tools, boundTools, result, tool_mapping, runs, prevCalls, prevEnd>>
    /\ UNCHANGED <<basicsVars, agentVars, ragVars>>

\* the loop ends and the next cell runs: llm_with_tools.invoke(messages)
FinalInvoke ==
    /\ tpc = "dispatch"
    /\ LoopExhausted(loopIdx, result.tool_calls)
    /\ \E tcs \in {<<>>} : toolRuns' = toolRuns \o InvokeRuns(tcs)
    /\ calls' = Append(calls, "llm")
    /\ tpc' = "done"
    /\ UNCHANGED <<tools, boundTools, result, messages, tool_mapping, loopIdx,
                   err, runs, prevCalls, prevEnd>>
    /\ UNCHANGED <<basicsVars, agentVars, ragVars>>

\* the kernel is restarted and the notebook run again
Rerun ==
    /\ tpc \in {"done", "aborted"}
    /\ runs < MaxRuns
    /\ runs' = runs + 1
    /\ prevCalls' = calls
    /\ prevEnd' = tpc
    /\ tools' = <<>>
    /\ boundTools' = {}
    /\ result' = NoResult
    /\ messages' = <<>>
    /\ tool_mapping' = EmptyMapping
    /\ loopIdx' = 0
    /\ toolRuns' = <<>>
    /\ calls' = <<>>
    /\ err' = ""
    /\ tpc' = "llm_invoke"
    /\ UNCHANGED <<basicsVars, agentVars, ragVars>>

ToolsStart ==
    /\ tools = <<>>
    /\ boundTools = {}
    /\ result = NoResult
    /\ messages = <<>>
    /\ tool_mapping = EmptyMapping
    /\ loopIdx = 0
    /\ toolRuns = <<>>
    /\ calls = <<>>
    /\ err = ""
    /\ tpc = "llm_invoke"
    /\ runs = 1
    /\ prevCalls = <<>>
    /\ prevEnd = ""

ToolsIdle == ToolsStart

NextTools ==
    \/ LlmInvoke
    \/ DefineTools
    \/ BindTools
    \/ InvokeQuestion
    \/ InvokeMessages
    \/ DefineToolMapping
    \/ DispatchToolCall
    \/ FinalInvoke
    \/ Rerun

----------------------------------------------------------------------------
(* 1_tools_basics.ipynb: the Math Tool and the ReAct agent.  The executor  *)
(* loop is AgentExecutor's, as the notebook configures it and as its       *)
(* verbose trace shows it: plan, then Action / Observation, until a Final  *)
(* Answer or the iteration cap.                                            *)

\* max_iterations=3
max_iterations == 3

CalculatorTool == "Calculator"

\* the tool names an Action of the model may carry
ActionNames == {"Calculator", "calculator", "fake_weather_api",
                "outdoor_seating_availability"}

AgentInputs == [invoke_1 |-> "How many members does the A Team have?",
                invoke_2 |-> "What is 100501 divided by 259?"]

NextCell == [invoke_1 |-> "invoke_2", invoke_2 |-> "done"]

StoppedOutput == "Agent stopped due to iteration limit or time limit."

NoAction == [tool |-> "", tool_input |-> ""]

\* the lines of the verbose trace
ActionLine(action) ==
    [kind |-> "Action", tool |-> action.tool, text |-> action.tool_input]
ObservationLine(observation) ==
    [kind |-> "Observation", tool |-> "", text |-> observation]
FinalAnswerLine(final) ==
    [kind |-> "Final Answer", tool |-> "", text |-> final]
NoOutput == [input |-> "", output |-> ""]

\* a faulty variant: load_tools' result added to the tools already in `tools`
ToolsAfterLoadExtend(old) == old \o <<CalculatorTool>>

\* tools = load_tools(["llm-math"], llm=llm): `tools` is rebound
ToolsAfterLoad(old) == <<CalculatorTool>>

LoadTools ==
    /\ apc = "load_tools"
    /\ tools' = ToolsAfterLoad(tools)
    /\ apc' = "initialize_agent"
    /\ UNCHANGED <<agentTools, agentState, agentInput, iterations, pending,
                   steps, agentOut, agentLog, toolRunsBefore>>
    /\ UNCHANGED <<toolRuns, toolsRest, basicsVars, ragVars>>

\* agent = initialize_agent(tools, llm, agent=ZERO_SHOT_REACT_DESCRIPTION,
\*                          verbose=True, max_iterations=3)
InitializeAgent ==
    /\ apc = "initialize_agent"
    /\ agentTools' = {tools[i] : i \in 1..Len(tools)}
    /\ apc' = "invoke_1"
    /\ UNCHANGED <<agentState, agentInput, iterations, pending, steps, agentOut,
                   agentLog, toolRunsBefore>>
    /\ UNCHANGED <<tools, toolRuns, toolsRest, basicsVars, ragVars>>

\* agent.invoke(input=...): "> Entering new AgentExecutor chain..."
AgentInvoke ==
    /\ apc \in {"invoke_1", "invoke_2"}
    /\ agentState = "idle"
    /\ agentInput' = AgentInputs[apc]
    /\ iterations' = 0
    /\ steps' = <<>>
    /\ pending' = NoAction
    /\ agentState' = "loop"
    /\ agentLog' = <<>>
    /\ toolRunsBefore' = Len(toolRuns)
    /\ UNCHANGED <<agentTools, apc, agentOut>>
    /\ UNCHANGED <<tools, toolRuns, toolsRest, basicsVars, ragVars>>

\* a faulty variant: a cap that lets one more iteration through
ShouldContinueInclusive(i) == i <= max_iterations

\* the executor goes round again while the cap is not reached
ShouldContinue(i) == i < max_iterations

\* the run returns {'input': ..., 'output': ...}: "> Finished chain."
AgentReturns(output) ==
    /\ agentOut' = [input |-> agentInput, output |-> output]
    /\ agentState' = "idle"
    /\ apc' = NextCell[apc]

\* the model is asked for the next step: a Final Answer, an Action with its
\* Action Input, or text the ReAct output parser cannot read (which raises)
AgentPlan ==
    /\ agentState = "loop"
    /\ ShouldContinue(iterations)
    /\ \/ /\ \E final \in {"4 members", "388.03474903474904"} :
                /\ AgentReturns(final)
                /\ agentLog' = Append(agentLog, FinalAnswerLine(final))
          /\ UNCHANGED <<pending, iterations, steps>>
       \/ /\ \E name \in ActionNames :
                pending' = [tool |-> name, tool_input |-> "100501 / 259"]
          /\ agentLog' = Append(agentLog, ActionLine(pending'))
          /\ agentState' = "act"
          /\ UNCHANGED <<apc, agentOut, iterations, steps>>
       \/ /\ agentState' = "raised"
          /\ apc' = "aborted"
          /\ UNCHANGED <<pending, agentOut, iterations, steps, agentLog>>
    /\ UNCHANGED <<agentTools, agentInput, toolRunsBefore>>
    /\ UNCHANGED <<tools, toolRuns, toolsRest, basicsVars, ragVars>>

\* the executor runs the Action: the tool of that name when the agent has
\* one (the Calculator may raise on an answer it cannot evaluate), otherwise
\* the "is not a valid tool" observation; then iterations += 1
AgentAct ==
    /\ agentState = "act"
    /\ IF pending.tool \in agentTools
       THEN /\ toolRuns' = Append(toolRuns, [tool |-> pending.tool, by |-> "agent"])
            /\ \/ /\ steps' = Append(steps, [tool |-> pending.tool, ran |-> pending.tool,
                                             observation |-> "Answer"])
                  /\ agentLog' = Append(agentLog, ObservationLine("Answer"))
                  /\ iterations' = iterations + 1
                  /\ agentState' = "loop"
                  /\ UNCHANGED apc
               \/ /\ agentState' = "raised"
                  /\ apc' = "aborted"
                  /\ UNCHANGED <<steps, iterations, agentLog>>
       ELSE /\ steps' = Append(steps, [tool |-> pending.tool, ran |-> "invalid_tool",
                                       observation |-> "not a valid tool"])
            /\ agentLog' = Append(agentLog, ObservationLine("not a valid tool"))
            /\ iterations' = iterations + 1
            /\ agentState' = "loop"
            /\ UNCHANGED <<toolRuns, apc>>
    /\ pending' = NoAction
    /\ UNCHANGED <<agentTools, agentInput, agentOut, toolRunsBefore>>
    /\ UNCHANGED <<tools, toolsRest, basicsVars, ragVars>>

\* the cap is reached without a Final Answer: the run stops and returns
AgentStop ==
    /\ agentState = "loop"
    /\ ~ShouldContinue(iterations)
    /\ AgentReturns(StoppedOutput)
    /\ UNCHANGED <<agentTools, agentInput, iterations, pending, steps, agentLog,
                   toolRunsBefore>>
    /\ UNCHANGED <<tools, toolRuns, toolsRest, basicsVars, ragVars>>

\* the tool-calling cells as the notebook's outputs record them
RecordedToolCalls ==
    << [name |-> "fake_weather_api", args |-> {"city"}, id |-> 1],
       [name |-> "outdoor_seating_availability", args |-> {"city"}, id |-> 2] >>

ToolsDone ==
    /\ tools = <<WeatherTool, SeatingTool>>
    /\ boundTools = {WeatherTool, SeatingTool}
    /\ result = AIMessage("", RecordedToolCalls)
    /\ messages = <<HumanMessage(Question), AIMessage("", RecordedToolCalls),
                    ToolMessage("Sunny, 22C", 1),
                    ToolMessage("Outdoor seating is available.", 2)>>
    /\ tool_mapping = [k \in {"fake_weather_api", "outdoor_seating_availability"} |->
                         IF k = "fake_weather_api" THEN WeatherTool ELSE SeatingTool]
    /\ loopIdx = 2
    /\ toolRuns = << [tool |-> WeatherTool, by |-> "notebook"],
                     [tool |-> SeatingTool, by |-> "notebook"] >>
    /\ calls = <<"llm", "llm", "llm", WeatherTool, SeatingTool, "llm">>
    /\ err = ""
    /\ tpc = "done"
    /\ runs = 1
    /\ prevCalls = <<>>
    /\ prevEnd = ""

AgentStart ==
    /\ agentTools = {}
    /\ apc = "load_tools"
    /\ agentState = "idle"
    /\ agentInput = ""
    /\ iterations = 0
    /\ pending = NoAction
    /\ steps = <<>>
    /\ agentOut = NoOutput
    /\ agentLog = <<>>
    /\ toolRunsBefore = 0

AgentIdle == AgentStart

AgentSteps == AgentPlan \/ AgentAct \/ AgentStop

NextAgent ==
    \/ LoadTools
    \/ InitializeAgent
    \/ AgentInvoke
    \/ AgentPlan
    \/ AgentAct
    \/ AgentStop

----------------------------------------------------------------------------
(* The RAG notebook.  A Document is [page_content |-> the pieces of text it *)
(* holds]; pieces are numbered as they stand in the page.                   *)

RagQuestion == "What is Task Decomposition?"

Document(pieces) == [page_content |-> pieces]

\* loader.load(): one Document per web path, holding the whole page
LoadedDocs(page) == << Document([i \in 1..Len(page) |-> i]) >>

RECURSIVE SplitDocuments(_)
\* text_splitter.split_documents(docs): every document cut into its pieces,
\* the documents taken in order
SplitDocuments(ds) ==
    IF ds = <<>> THEN <<>>
    ELSE [i \in 1..Len(Head(ds).page_content) |->
             Document(<<Head(ds).page_content[i]>>)]
         \o SplitDocuments(Tail(ds))

\* the similarity of a stored split to the question: the embedding model's
\* grade of the piece it holds
Similarity(page, d) == page[d.page_content[1]]

\* the place of the stored document most similar to the question, the
\* earliest stored among equals
Nearest(page, store) ==
    CHOOSE b \in 1..Len(store) :
        /\ \A j \in 1..Len(store) : Similarity(page, store[j]) <= Similarity(page, store[b])
        /\ \A j \in 1..(b - 1) : Similarity(page, store[j]) < Similarity(page, store[b])

RemoveAt(seq, b) == SubSeq(seq, 1, b - 1) \o SubSeq(seq, b + 1, Len(seq))

RECURSIVE SimilaritySearch(_, _, _)
\* the k stored documents most similar to the question, most similar first
SimilaritySearch(page, store, k) ==
    IF k = 0 \/ store = <<>> THEN <<>>
    ELSE LET b == Nearest(page, store)
         IN  <<store[b]>> \o SimilaritySearch(page, RemoveAt(store, b), k - 1)

\* the k of as_retriever() without search_kwargs
DefaultK == 4

\* search_kwargs={"k": 1}
SearchK == 1

RECURSIVE format_docs(_)
\* "\n\n".join(doc.page_content for doc in docs)
format_docs(ds) ==
    IF ds = <<>> THEN <<>>
    ELSE IF Len(ds) = 1 THEN Head(ds).page_content
    ELSE Head(ds).page_content \o <<"\n\n">> \o format_docs(Tail(ds))

NoPrompt == [context |-> <<>>, question |-> ""]

ragRest == <<chainPc, ctxPc, qPc, retrieved, context, promptValue, answer>>

\* docs = loader.load()
Load ==
    /\ rpc = "load"
    /\ docs' = LoadedDocs(webPage)
    /\ ragLog' = Append(ragLog, "load")
    /\ rpc' = "split"
    /\ UNCHANGED <<webPage, blog_docs, splits, vectorstore, retrieverK, ragRest>>
    /\ UNCHANGED <<basicsVars, toolsVars, agentVars, manualVars>>

\* splits = text_splitter.split_documents(docs)
Split ==
    /\ rpc = "split"
    /\ splits' = SplitDocuments(docs)
    /\ ragLog' = Append(ragLog, "split")
    /\ rpc' = "index"
    /\ UNCHANGED <<webPage, docs, blog_docs, vectorstore, retrieverK, ragRest>>
    /\ UNCHANGED <<basicsVars, toolsVars, agentVars, manualVars>>

\* vectorstore = Chroma.from_documents(documents=splits, embedding=...):
\* the splits are embedded, then added to the collection
\* retriever = vectorstore.as_retriever()
Index ==
    /\ rpc = "index"
    /\ vectorstore' = vectorstore \o splits
    /\ retrieverK' = DefaultK
    /\ ragLog' = ragLog \o <<"embed", "store">>
    /\ rpc' = "invoke"
    /\ UNCHANGED <<webPage, docs, blog_docs, splits, ragRest>>
    /\ UNCHANGED <<basicsVars, toolsVars, agentVars, manualVars>>

\* rag_chain.invoke("What is Task Decomposition?"): the first step starts
\* its two branches
ChainInvoke ==
    /\ rpc = "invoke"
    /\ chainPc = "idle"
    /\ chainPc' = "parallel"
    /\ ctxPc' = "retrieve"
    /\ qPc' = "pass"
    /\ UNCHANGED <<webPage, docs, blog_docs, splits, vectorstore, retrieverK,
                   retrieved, context, promptValue, answer, ragLog, rpc>>
    /\ UNCHANGED <<basicsVars, toolsVars, agentVars, manualVars>>

\* "context": retriever | format_docs -- the retriever
ChainRetrieve ==
    /\ chainPc = "parallel"
    /\ ctxPc = "retrieve"
    /\ retrieved' = SimilaritySearch(webPage, vectorstore, retrieverK)
    /\ ragLog' = Append(ragLog, "retrieve")
    /\ ctxPc' = "format"
    /\ UNCHANGED <<webPage, docs, blog_docs, splits, vectorstore, retrieverK,
                   chainPc, qPc, context, promptValue, answer, rpc>>
    /\ UNCHANGED <<basicsVars, toolsVars, agentVars, manualVars>>

\* "context": retriever | format_docs -- format_docs
ChainFormatDocs ==
    /\ chainPc = "parallel"
    /\ ctxPc = "format"
    /\ context' = format_docs(retrieved)
    /\ ctxPc' = "done"
    /\ UNCHANGED <<webPage, docs, blog_docs, splits, vectorstore, retrieverK,
                   chainPc, qPc, retrieved, promptValue, answer, ragLog, rpc>>
    /\ UNCHANGED <<basicsVars, toolsVars, agentVars, manualVars>>

\* "question": RunnablePassthrough()
ChainPassthrough ==
    /\ chainPc = "parallel"
    /\ qPc = "pass"
    /\ qPc' = "done"
    /\ UNCHANGED <<webPage, docs, blog_docs, splits, vectorstore, retrieverK,
                   chainPc, ctxPc, retrieved, context, promptValue, answer,
                   ragLog, rpc>>
    /\ UNCHANGED <<basicsVars, toolsVars, agentVars, manualVars>>

\* a faulty variant: the prompt is filled as soon as the question is there
PromptReadyOnQuestion == qPc = "done"

\* the first step hands on its dict when both branches have returned
PromptReady == ctxPc = "done" /\ qPc = "done"

\* | prompt
ChainPrompt ==
    /\ chainPc = "parallel"
    /\ PromptReady
    /\ promptValue' = [context |-> context, question |-> RagQuestion]
    /\ chainPc' = "llm"
    /\ UNCHANGED <<webPage, docs, blog_docs, splits, vectorstore, retrieverK,
                   ctxPc, qPc, retrieved, context, answer, ragLog, rpc>>
    /\ UNCHANGED <<basicsVars, toolsVars, agentVars, manualVars>>

\* | llm | StrOutputParser(): the model generates, the parser returns its text
ChainLlm ==
    /\ chainPc = "llm"
    /\ \E text \in {"grounded answer", "I don't know"} : answer' = text
    /\ ragLog' = Append(ragLog, "generate")
    /\ chainPc' = "done"
    /\ rpc' = "blog_load"
    /\ UNCHANGED <<webPage, docs, blog_docs, splits, vectorstore, retrieverK,
                   ctxPc, qPc, retrieved, context, promptValue>>
    /\ UNCHANGED <<basicsVars, toolsVars, agentVars, manualVars>>

\* blog_docs = loader.load()
BlogLoad ==
    /\ rpc = "blog_load"
    /\ blog_docs' = LoadedDocs(webPage)
    /\ ragLog' = Append(ragLog, "load")
    /\ rpc' = "blog_split"
    /\ UNCHANGED <<webPage, docs, splits, vectorstore, retrieverK, ragRest>>
    /\ UNCHANGED <<basicsVars, toolsVars, agentVars, manualVars>>

\* splits = text_splitter.split_documents(blog_docs)
BlogSplit ==
    /\ rpc = "blog_split"
    /\ splits' = SplitDocuments(blog_docs)
    /\ ragLog' = Append(ragLog, "split")
    /\ rpc' = "blog_index"
    /\ UNCHANGED <<webPage, docs, blog_docs, vectorstore, retrieverK, ragRest>>
    /\ UNCHANGED <<basicsVars, toolsVars, agentVars, manualVars>>

\* Part 2: vectorstore = Chroma.from_documents(...); retriever = as_retriever()
\* (the same default collection of the same in-process client: it grows)
BlogIndex ==
    /\ rpc = "blog_index"
    /\ vectorstore' = vectorstore \o splits
    /\ retrieverK' = DefaultK
    /\ ragLog' = ragLog \o <<"embed", "store">>
    /\ rpc' = "index_k1"
    /\ UNCHANGED <<webPage, docs, blog_docs, splits, ragRest>>
    /\ UNCHANGED <<basicsVars, toolsVars, agentVars, manualVars>>

\* Part 3: vectorstore = Chroma.from_documents(...);
\* retriever = vectorstore.as_retriever(search_kwargs={"k": 1})
IndexK1 ==
    /\ rpc = "index_k1"
    /\ vectorstore' = vectorstore \o splits
    /\ retrieverK' = SearchK
    /\ ragLog' = ragLog \o <<"embed", "store">>
    /\ rpc' = "retrieve_k1"
    /\ UNCHANGED <<webPage, docs, blog_docs, splits, ragRest>>
    /\ UNCHANGED <<basicsVars, toolsVars, agentVars, manualVars>>

\* docs = retriever.get_relevant_documents("What is Task Decomposition?")
RetrieveK1 ==
    /\ rpc = "retrieve_k1"
    /\ docs' = SimilaritySearch(webPage, vectorstore, retrieverK)
    /\ ragLog' = Append(ragLog, "retrieve")
    /\ rpc' = "done"
    /\ UNCHANGED <<webPage, blog_docs, splits, vectorstore, retrieverK, ragRest>>
    /\ UNCHANGED <<basicsVars, toolsVars, agentVars, manualVars>>

----------------------------------------------------------------------------
(* The RAG notebook, the cells on shakespeare.txt: load, split, store in   *)
(* the collection "shakespeare", search, then prompt the model by hand.    *)

ManualQuery == "What is Malcolm?"

\* PromptTemplate.from_template(...).format(context=context, query=query):
\* the template with its two placeholders filled, segment by segment
PromptFormat(ctx, q) ==
    << <<"Based on the following context, answer the question:\n\n">>,
       ctx,
       <<"\n\nQuestion: ">>,
       <<q>>,
       <<"\nAnswer:">> >>

\* documents = loader.load()
ManualLoad ==
    /\ mpc = "load"
    /\ documents' = LoadedDocs(shakespeare)
    /\ mpc' = "split"
    /\ UNCHANGED <<shakespeare, db, query, promptText, manualOut>>
    /\ UNCHANGED <<docs, context, answer, ragOnly>>
    /\ UNCHANGED <<basicsVars, toolsVars, agentVars>>

\* docs = text_splitter.split_documents(documents)
ManualSplit ==
    /\ mpc = "split"
    /\ docs' = SplitDocuments(documents)
    /\ mpc' = "index"
    /\ UNCHANGED <<shakespeare, documents, db, query, promptText, manualOut>>
    /\ UNCHANGED <<context, answer, ragOnly>>
    /\ UNCHANGED <<basicsVars, toolsVars, agentVars>>

\* db = Chroma.from_documents(docs, embedding_function,
\*                            collection_name="shakespeare")
ManualIndex ==
    /\ mpc = "index"
    /\ db' = db \o docs
    /\ mpc' = "search"
    /\ UNCHANGED <<shakespeare, documents, query, promptText, manualOut>>
    /\ UNCHANGED <<docs, context, answer, ragOnly>>
    /\ UNCHANGED <<basicsVars, toolsVars, agentVars>>

\* query = "What is Malcolm?"; docs = db.similarity_search(query);
\* print(docs[0].page_content)
ManualSearch ==
    /\ mpc = "search"
    /\ query' = ManualQuery
    /\ docs' = SimilaritySearch(shakespeare, db, DefaultK)
    /\ IF docs' = <<>>
       THEN /\ mpc' = "aborted"
            /\ UNCHANGED manualOut
       ELSE /\ manualOut' = Append(manualOut, docs'[1].page_content)
            /\ mpc' = "context"
    /\ UNCHANGED <<shakespeare, documents, db, promptText>>
    /\ UNCHANGED <<context, answer, ragOnly>>
    /\ UNCHANGED <<basicsVars, toolsVars, agentVars>>

\* context = docs[0].page_content
ManualContext ==
    /\ mpc = "context"
    /\ IF docs = <<>>
       THEN /\ mpc' = "aborted"
            /\ UNCHANGED context
       ELSE /\ context' = docs[1].page_content
            /\ mpc' = "generate"
    /\ UNCHANGED <<shakespeare, documents, db, query, promptText, manualOut>>
    /\ UNCHANGED <<docs, answer, ragOnly>>
    /\ UNCHANGED <<basicsVars, toolsVars, agentVars>>

\* answer = llm.invoke(prompt.format(context=context, query=query));
\* print(answer)
ManualGenerate ==
    /\ mpc = "generate"
    /\ promptText' = PromptFormat(context, query)
    /\ \E text \in {"grounded answer", "I don't know"} :
        /\ answer' = text
        /\ manualOut' = Append(manualOut, <<text>>)
    /\ mpc' = "done"
    /\ UNCHANGED <<shakespeare, documents, db, query>>
    /\ UNCHANGED <<docs, context, ragOnly>>
    /\ UNCHANGED <<basicsVars, toolsVars, agentVars>>

ManualCellsStart ==
    /\ documents = <<>>
    /\ db = <<>>
    /\ query = ""
    /\ promptText = <<>>
    /\ manualOut = <<>>

ManualStart ==
    /\ shakespeare \in UNION {[1..n -> 0..MaxSim] : n \in 1..MaxChunks}
    /\ mpc = "load"
    /\ ManualCellsStart

ManualIdle ==
    /\ shakespeare = <<0>>
    /\ mpc = "idle"
    /\ ManualCellsStart

NextManual ==
    \/ ManualLoad
    \/ ManualSplit
    \/ ManualIndex
    \/ ManualSearch
    \/ ManualContext
    \/ ManualGenerate

RagCellsStart ==
    /\ docs = <<>>
    /\ blog_docs = <<>>
    /\ splits = <<>>
    /\ vectorstore = <<>>
    /\ retrieverK = 0
    /\ chainPc = "idle"
    /\ ctxPc = "idle"
    /\ qPc = "idle"
    /\ retrieved = <<>>
    /\ context = <<>>
    /\ promptValue = NoPrompt
    /\ answer = ""
    /\ ragLog = <<>>
    /\ rpc = "load"

RagStart ==
    /\ webPage \in UNION {[1..n -> 0..MaxSim] : n \in 1..MaxPieces}
    /\ RagCellsStart
    /\ ManualIdle

RagIdle ==
    /\ webPage = <<0>>
    /\ RagCellsStart
    /\ ManualIdle

NextRag ==
    \/ Load
    \/ Split
    \/ Index
    \/ ChainInvoke
    \/ ChainRetrieve
    \/ ChainFormatDocs
    \/ ChainPassthrough
    \/ ChainPrompt
    \/ ChainLlm
    \/ BlogLoad
    \/ BlogSplit
    \/ BlogIndex
    \/ IndexK1
    \/ RetrieveK1

----------------------------------------------------------------------------
(* Claims *)

IsPrefix(s, t) == Len(s) <= Len(t) /\ SubSeq(t, 1, Len(s)) = s

ToolMessagesOf(msgs) == {i \in 1..Len(msgs) : msgs[i].type = "tool"}

\* C1 as stated: in the tool-calling flow no notebook-authored step looks up
\* a tool, invokes it, or appends its result to the conversation.
C1_NoAuthoredDispatch ==
    /\ \A i \in 1..Len(toolRuns) : toolRuns[i].by # "notebook"
    /\ ToolMessagesOf(messages) = {}

\* C1 amended: in the tool-calling flow every execution of a tool is a pass
\* of the notebook's own dispatch loop, which also appends the ToolMessage;
\* the calling framework (llm_with_tools.invoke) runs no tool and routes no
\* result.
C1_DispatchIsAuthored ==
    /\ \A i \in 1..Len(toolRuns) : toolRuns[i].by = "notebook"
    /\ Len(toolRuns) = loopIdx
    /\ Cardinality(ToolMessagesOf(messages)) = loopIdx

C1_Witness ==
    /\ tpc = "done"
    /\ Len(toolRuns) = 2
    /\ Cardinality(ToolMessagesOf(messages)) = 2

\* C2: every agent.invoke of the agent built with max_iterations=3 comes to
\* an end, and no run performs more than 3 action/observation iterations,
\* whether or not the model has given a final answer.
C2_AgentRunEndsWithinCap ==
    /\ [](iterations <= 3 /\ Len(steps) <= 3)
    /\ (agentState \in {"loop", "act"}) ~> (agentState \in {"idle", "raised"})

C2_Witness ==
    /\ agentState = "idle"
    /\ apc = "invoke_2"
    /\ iterations = 3
    /\ Len(steps) = 3
    /\ agentOut.output = StoppedOutput

\* C7: once `tools` is rebound to load_tools(["llm-math"]) the agent's tool
\* set is exactly {Calculator}: no agent run executes fake_weather_api or
\* outdoor_seating_availability, and every Action the executor carries out
\* as a tool run names Calculator.
C7_AgentRunsOnlyCalculator ==
    /\ apc # "load_tools" => tools = <<CalculatorTool>>
    /\ apc \notin {"load_tools", "initialize_agent"} => agentTools = {CalculatorTool}
    /\ \A i \in 1..Len(toolRuns) :
        toolRuns[i].by = "agent" => toolRuns[i].tool = CalculatorTool
    /\ \A i \in 1..Len(steps) :
        steps[i].ran # "invalid_tool" =>
            steps[i].tool = CalculatorTool /\ steps[i].ran = CalculatorTool

C7_Witness ==
    /\ Len(steps) = 2
    /\ steps[1].tool = "fake_weather_api"
    /\ steps[1].ran = "invalid_tool"
    /\ steps[2].ran = CalculatorTool
    /\ toolRuns[Len(toolRuns)] = [tool |-> CalculatorTool, by |-> "agent"]

\* C3 as stated: for every non-empty key the printed text reveals only the
\* first 4 and the last 4 characters of the key, and never the full key.
C3_KeyNeverPrintedInFull ==
    (kpc = "done" /\ Truthy(api_key)) =>
        \A i \in 1..Len(stdout) :
            /\ stdout[i].text = SubSeq(api_key.s, 1, Min(4, Len(api_key.s)))
                                \o Ellipsis
                                \o SubSeq(api_key.s, Max(1, Len(api_key.s) - 3),
                                          Len(api_key.s))
            /\ ~IsSubstring(api_key.s, stdout[i].text)

\* C4: the key is the value of OPENAI_API_KEY after load_dotenv(); the check
\* prints exactly one of the two messages, and "No API key found" if and only
\* if the variable is unset or the empty string.
C4_NotFoundIffUnsetOrEmpty ==
    /\ kpc \in {"load_dotenv", "getenv", "check"} => stdout = <<>>
    /\ kpc = "done" =>
        /\ api_key = environ
        /\ Len(stdout) = 1
        /\ stdout[1].label \in {FoundLabel, NotFoundLabel}
        /\ stdout[1].label = NotFoundLabel <=> (environ.isNone \/ environ.s = <<>>)

C4_Witness ==
    /\ kpc = "done"
    /\ ~environ.isNone
    /\ environ.s = <<>>
    /\ stdout[1].label = NotFoundLabel

\* the calls a run makes when result.tool_calls is tcs and nothing raises
ExpectedCalls(tcs) ==
    <<"llm", "llm", "llm">> \o [i \in 1..Len(tcs) |-> Lower(tcs[i].name)] \o <<"llm">>

\* C6 as stated: the number and order of the calls to the external services
\* and tools is the same on every run, whatever those calls return.
C6_SameCallsOnEveryRun ==
    (tpc = "done" /\ prevEnd = "done") => calls = prevCalls

\* C6 amended: the authored control flow is linear except for the loop over
\* result.tool_calls: the calls to the hosted model come at fixed places, and
\* between the third and the last of them the run invokes one tool per entry
\* of result.tool_calls, in the order of the entries, stopping at the first
\* that raises; so the number of tool invocations is decided by the model's
\* answer.
C6_CallsFollowToolCalls ==
    /\ tpc \in {"llm_invoke", "define_tools", "bind_tools", "invoke_question",
                "invoke_messages"} => IsPrefix(calls, <<"llm", "llm">>)
    /\ tpc \in {"tool_mapping", "dispatch", "aborted"} =>
        /\ IsPrefix(calls, ExpectedCalls(result.tool_calls))
        /\ Len(calls) < Len(ExpectedCalls(result.tool_calls))
    /\ tpc = "done" => calls = ExpectedCalls(result.tool_calls)

C6_Witness ==
    /\ tpc = "done"
    /\ prevEnd = "done"
    /\ Len(calls) = 6
    /\ Len(prevCalls) = 4

\* every b in the log has an a somewhere before it
Precedes(log, a, b) ==
    \A j \in 1..Len(log) : log[j] = b => \E i \in 1..(j - 1) : log[i] = a

RagStages == <<"load", "split", "embed", "store", "retrieve", "generate">>

\* C5: a RAG run goes through its stages in the order load, split, embed,
\* store, retrieve, generate: nothing is split before it is loaded, nothing
\* is retrieved before the splits are stored, and the model is not called to
\* generate before the retrieval for the question has returned.
C5_RagStagesInOrder ==
    /\ rpc \in {"load", "split", "index", "invoke"} => IsPrefix(ragLog, RagStages)
    /\ Precedes(ragLog, "load", "split")
    /\ Precedes(ragLog, "store", "retrieve")
    /\ Precedes(ragLog, "retrieve", "generate")
    /\ splits # <<>> => docs # <<>>
    /\ chainPc \in {"llm", "done"} => ctxPc = "done"

C5_Witness ==
    /\ rpc = "blog_load"
    /\ ragLog = RagStages
    /\ Len(retrieved) = 3
    /\ answer = "grounded answer"

\* C8: against a non-empty store the retriever built with
\* search_kwargs={"k": 1} returns exactly one document, and it is a stored
\* split no other stored split is more similar to the query than.
C8_K1ReturnsMostSimilar ==
    (rpc = "done" /\ vectorstore # <<>>) =>
        /\ Len(docs) = 1
        /\ \E i \in 1..Len(vectorstore) : vectorstore[i] = docs[1]
        /\ \A j \in 1..Len(vectorstore) :
            Similarity(webPage, vectorstore[j]) <= Similarity(webPage, docs[1])

C8_Witness ==
    /\ rpc = "done"
    /\ Len(vectorstore) = 9
    /\ Len(docs) = 1
    /\ Similarity(webPage, vectorstore[1]) < Similarity(webPage, docs[1])
    /\ Similarity(webPage, vectorstore[3]) < Similarity(webPage, docs[1])

\* the tool a call names, letter case aside
NamedTool(name) ==
    CHOOSE t \in {WeatherTool, SeatingTool} : Lower(t) = Lower(name)

LoopCompleted ==
    \/ tpc = "done"
    \/ tpc = "dispatch" /\ loopIdx = Len(result.tool_calls)

\* C9: once the dispatch loop has completed, messages holds, after the
\* AIMessage, exactly one ToolMessage per entry of result.tool_calls, in the
\* order of the entries, each with the id of its call and the output of the
\* tool that call names.
C9_OneToolMessagePerCall ==
    LoopCompleted =>
        /\ Len(messages) = 2 + Len(result.tool_calls)
        /\ messages[1].type = "human"
        /\ messages[2] = result
        /\ \A i \in 1..Len(result.tool_calls) :
            /\ messages[2 + i].type = "tool"
            /\ messages[2 + i].tool_call_id = result.tool_calls[i].id
            /\ messages[2 + i].content = ToolOutput(NamedTool(result.tool_calls[i].name))

C9_Witness ==
    /\ tpc = "dispatch"
    /\ loopIdx = 2
    /\ Len(result.tool_calls) = 2
    /\ result.tool_calls[1].name = "outdoor_seating_availability"
    /\ result.tool_calls[2].name = "Fake_Weather_API"
    /\ messages[3].content = "Outdoor seating is available."
    /\ messages[4].content = "Sunny, 22C"

\* C10: the first llm_with_tools.invoke(messages) runs no tool, no tool
\* function runs before the dispatch loop, and the second
\* llm_with_tools.invoke(messages) is issued only when every tool call of the
\* first answer has a ToolMessage with its id in messages.
C10_InvokeAfterAllToolMessages ==
    /\ tpc \in {"llm_invoke", "define_tools", "bind_tools", "invoke_question",
                "invoke_messages", "tool_mapping"} => toolRuns = <<>>
    /\ tpc = "done" =>
        \A i \in 1..Len(result.tool_calls) :
            \E j \in ToolMessagesOf(messages) :
                messages[j].tool_call_id = result.tool_calls[i].id

C10_Witness ==
    /\ tpc = "done"
    /\ Len(result.tool_calls) = 2
    /\ calls[Len(calls)] = "llm"
    /\ Len(toolRuns) = 2

\* the keys of the dict literal tool_mapping
MappingKeys == {"fake_weather_api", "outdoor_seating_availability"}

\* a tool call the loop cannot serve: its lower-cased name is no key of
\* tool_mapping, or the tool rejects its arguments
CallFails(tc) == Lower(tc.name) \notin MappingKeys \/ "city" \notin tc.args

\* C11: the dispatch loop handles no failure: at a tool call whose
\* lower-cased name is no key of tool_mapping, or whose invocation raises,
\* the loop ends with that error; the ToolMessages of the earlier calls stay
\* in messages and neither the failing call nor a later one gets one.
C11_LoopAbortsAtFailingCall ==
    /\ [](tpc = "aborted" =>
            /\ err \in {"KeyError", "ValidationError"}
            /\ loopIdx < Len(result.tool_calls)
            /\ CallFails(result.tool_calls[loopIdx + 1])
            /\ err = "KeyError" <=>
                   Lower(result.tool_calls[loopIdx + 1].name) \notin MappingKeys
            /\ Len(messages) = 2 + loopIdx)
    /\ [](tpc \in {"dispatch", "done", "aborted"} =>
            /\ Cardinality(ToolMessagesOf(messages)) = loopIdx
            /\ \A i \in 1..loopIdx :
                /\ ~CallFails(result.tool_calls[i])
                /\ messages[2 + i].type = "tool"
                /\ messages[2 + i].tool_call_id = result.tool_calls[i].id)
    /\ [][(/\ tpc = "dispatch"
           /\ loopIdx < Len(result.tool_calls)
           /\ CallFails(result.tool_calls[loopIdx + 1]))
          => (tpc' = "aborted" /\ err' # "" /\ messages' = messages)]_vars

C11_Witness ==
    /\ tpc = "aborted"
    /\ err = "KeyError"
    /\ loopIdx = 1
    /\ Len(result.tool_calls) = 2
    /\ Len(messages) = 3
    /\ messages[3].type = "tool"

\* two names that are the same once letter case is set aside
EqualUpToCase(a, b) ==
    /\ Len(Chars(a)) = Len(Chars(b))
    /\ \A i \in 1..Len(Chars(a)) : LowerChar(Chars(a)[i]) = LowerChar(Chars(b)[i])

\* C12: the lookup of the dispatch loop ignores letter case: a tool call
\* whose name is that of a mapped tool up to letter case selects that tool,
\* and two names that differ only in letter case select the same tool.
C12_LookupIgnoresCase ==
    /\ \A a, b \in CallNames :
        EqualUpToCase(a, b) => LookupKey([name |-> a]) = LookupKey([name |-> b])
    /\ tpc \in {"dispatch", "done", "aborted"} =>
        /\ \A i \in 1..loopIdx : \A t \in {WeatherTool, SeatingTool} :
            EqualUpToCase(result.tool_calls[i].name, t) =>
                /\ toolRuns[i].tool = t
                /\ messages[2 + i].content = ToolOutput(t)
        /\ err = "KeyError" =>
            \A t \in {WeatherTool, SeatingTool} :
                ~EqualUpToCase(result.tool_calls[loopIdx + 1].name, t)

C12_Witness ==
    /\ tpc = "dispatch"
    /\ loopIdx = 2
    /\ result.tool_calls[1].name = "Fake_Weather_API"
    /\ result.tool_calls[2].name = "fake_weather_api"
    /\ toolRuns[1].tool = WeatherTool
    /\ toolRuns[2].tool = WeatherTool

\* C13: in the cells on shakespeare.txt the context given to the model
\* combines the content of the retrieved documents: the page_content of
\* every document similarity_search returned appears in the context.
C13_ContextHoldsEveryRetrievedDocument ==
    mpc \in {"generate", "done"} =>
        \A i \in 1..Len(docs) : IsSubstring(docs[i].page_content, context)

\* C14: the names of the tools passed to bind_tools are exactly the keys of
\* tool_mapping, so a tool call that names a bound tool exactly is never
\* the one the lookup fails at.
C14_BoundNamesAreMappingKeys ==
    tpc \in {"dispatch", "done", "aborted"} =>
        /\ boundTools = DOMAIN tool_mapping
        /\ \A i \in 1..Len(result.tool_calls) :
            result.tool_calls[i].name \in boundTools =>
                /\ result.tool_calls[i].name \in DOMAIN tool_mapping
                /\ ~(err = "KeyError" /\ loopIdx + 1 = i)

C14_Witness ==
    /\ tpc = "done"
    /\ boundTools = {WeatherTool, SeatingTool}
    /\ loopIdx = 2
    /\ result.tool_calls[1].name = SeatingTool
    /\ result.tool_calls[2].name = WeatherTool
    /\ toolRuns = <<[tool |-> SeatingTool, by |-> "notebook"],
                    [tool |-> WeatherTool, by |-> "notebook"]>>

\* C15: messages only grows by appending while the tool-calling cells run:
\* once the list exists, every step of the run leaves the messages already
\* in it unchanged and in place, and the list is the HumanMessage, then the
\* AIMessage with the tool calls, then ToolMessages only.
C15_MessagesAppendOnly ==
    /\ [][(messages # <<>> /\ runs' = runs) => IsPrefix(messages, messages')]_vars
    /\ [](messages # <<>> =>
            /\ Len(messages) >= 2
            /\ messages[1] = HumanMessage(Question)
            /\ messages[2] = result
            /\ messages[2].type = "ai"
            /\ \A i \in 3..Len(messages) : messages[i].type = "tool")
    /\ [][tpc' = "done" => messages' = messages]_vars

C15_Witness ==
    /\ tpc = "done"
    /\ Len(messages) = 4
    /\ messages[1].type = "human"
    /\ messages[2].type = "ai"
    /\ Len(messages[2].tool_calls) = 2
    /\ messages[3].type = "tool"
    /\ messages[4].type = "tool"

\* the last agent.invoke has returned its dict
RunReturned == agentState = "idle" /\ apc \in {"invoke_2", "done"}

FinalAnswers(log) == {i \in 1..Len(log) : log[i].kind = "Final Answer"}

\* every Observation of the trace follows an Action that names a tool and
\* gives its Action Input
ObservationsFollowActions(log) ==
    \A i \in 1..Len(log) :
        log[i].kind = "Observation" =>
            /\ i > 1
            /\ log[i - 1].kind = "Action"
            /\ log[i - 1].tool \in ActionNames
            /\ log[i - 1].text # ""

\* C16 as stated: in every agent run each Observation follows an Action
\* with its Action Input, the run ends with exactly one Final Answer and
\* nothing after it, a run answered directly invokes no tool, and the
\* returned 'input' is the input passed to agent.invoke.
C16_EveryRunEndsWithFinalAnswer ==
    /\ ObservationsFollowActions(agentLog)
    /\ RunReturned =>
        /\ Cardinality(FinalAnswers(agentLog)) = 1
        /\ agentLog[Len(agentLog)].kind = "Final Answer"
        /\ Len(agentLog) = 1 => Len(toolRuns) = toolRunsBefore
        /\ agentOut.input = agentInput

\* C16, amended: each Observation follows an Action with its Action Input;
\* a run that returns ends either with its one Final Answer, nothing after
\* it, or at the cap of max_iterations with the stopped response and no
\* Final Answer; a run that raises has no Final Answer; a run answered
\* directly invokes no tool; the returned 'input' is the input passed in.
C16_RunEndsWithFinalAnswerOrAtCap ==
    /\ ObservationsFollowActions(agentLog)
    /\ Cardinality(FinalAnswers(agentLog)) <= 1
    /\ \A i \in FinalAnswers(agentLog) : i = Len(agentLog) /\ agentState = "idle"
    /\ agentState = "raised" => FinalAnswers(agentLog) = {}
    /\ RunReturned =>
        /\ \/ /\ FinalAnswers(agentLog) = {Len(agentLog)}
              /\ agentOut.output = agentLog[Len(agentLog)].text
              /\ agentOut.output # StoppedOutput
              /\ iterations < max_iterations
           \/ /\ FinalAnswers(agentLog) = {}
              /\ agentOut.output = StoppedOutput
              /\ iterations = max_iterations
              /\ Len(steps) = max_iterations
        /\ Len(agentLog) = 1 => (Len(toolRuns) = toolRunsBefore /\ steps = <<>>)
        /\ agentOut.input = agentInput
        /\ agentInput = IF apc = "invoke_2" THEN AgentInputs.invoke_1
                                            ELSE AgentInputs.invoke_2

C16_Witness ==
    /\ RunReturned
    /\ apc = "done"
    /\ agentLog = << ActionLine([tool |-> CalculatorTool, tool_input |-> "100501 / 259"]),
                     ObservationLine("Answer"),
                     FinalAnswerLine("388.03474903474904") >>
    /\ agentOut = [input |-> "What is 100501 divided by 259?",
                   output |-> "388.03474903474904"]
    /\ Len(toolRuns) = toolRunsBefore + 1

----------------------------------------------------------------------------
(* Specifications *)

BasicsInit == BasicsStart /\ ToolsIdle /\ AgentIdle /\ RagIdle

SpecBasics == BasicsInit /\ [][NextBasics]_vars

ToolsInit == BasicsIdle /\ ToolsStart /\ AgentIdle /\ RagIdle

SpecTools == ToolsInit /\ [][NextTools]_vars

\* the agent cells follow the tool-calling cells in the same kernel
AgentInit == BasicsIdle /\ ToolsDone /\ AgentStart /\ RagIdle

SpecAgent == AgentInit /\ [][NextAgent]_vars

\* a running agent.invoke keeps taking steps: the interpreter runs the
\* executor loop and every call it makes returns or raises
FairSpecAgent == SpecAgent /\ WF_vars(AgentSteps)

RagInit == BasicsIdle /\ ToolsIdle /\ AgentIdle /\ RagStart

SpecRag == RagInit /\ [][NextRag]_vars

ManualInit ==
    /\ BasicsIdle /\ ToolsIdle /\ AgentIdle
    /\ webPage = <<0>> /\ RagCellsStart
    /\ ManualStart

SpecManual == ManualInit /\ [][NextManual]_vars

====
